---- MODULE Spec2Model ----
(***************************************************************************)
(* Refresh-Snapshot pipeline of the vulnerability management backend.      *)
(*                                                                         *)
(*   Spec      the Defender source run: initialize_database,               *)
(*             perform_full_sync, sync_device_vulnerabilities_full and     *)
(*             save_vulnerabilities statement by statement, against a      *)
(*             MySQL schema of named tables, with a concurrent reader of   *)
(*             the live table and database faults.                         *)
(*   SnapSpec  record_snapshot statement by statement inside its           *)
(*             transaction, with database faults.                          *)
(*   SyncSpec  trigger_sync callers and the background _run_sync_job       *)
(*             threads over the module globals sync_in_progress and        *)
(*             sync_progress.  SyncFairSpec adds the scheduling fairness   *)
(*             of the started threads.                                     *)
(***************************************************************************)
EXTENDS Integers, Sequences, FiniteSets, TLC

\* ---------------------------------------------------------------- bounds
\* Largest external id a fetched record may carry (record 0 carries none).
MaxId == 2
\* Longest batch fetch_device_vulnerabilities returns.
MaxBatch == 2
\* Database faults injected in one behaviour.
MaxFaults == 1
\* batch_size of save_vulnerabilities and record_snapshot (2000 in the
\* source, repository.py:258 and :591), scaled so that a batch list of
\* MaxBatch rows is written in more than one executemany.
BatchSize == 1

\* Sync sources of the registry a caller may select (the registry lists 3).
MaxSources == 2

\* Largest row id of the live table record_snapshot reads, and the largest
\* cve_id and device_id a row carries (0 is the empty string).
MaxRowId == 7
MaxCve == 2
MaxDevice == 1
\* Calls of record_snapshot on one connection.
MaxSnapshots == 2

\* The trend calendar: the clock runs over the days 0..MaxDay; a week has
\* DaysPerWeek days (7 in the source), scaled with the month and the year
\* so that a period's points stay few.
MaxDay == 2
DaysPerWeek == 2
\* Snapshot rows in the history, and calls of refresh_trend_periods.
MaxHistory == 2
MaxRefresh == 2

\* ------------------------------------------------------------- constants
TABLE_VULNERABILITIES == "vulnerabilities"
temp_table_name == "vulnerabilities_temp"
old_table_name == "vulnerabilities_old"
TableNames == {TABLE_VULNERABILITIES, temp_table_name, old_table_name}

\* A fetched record is its external id; NoId is a record without 'id'.
NoId == 0
Ids == 1..MaxId
Records == Ids \cup {NoId}
Batches == UNION {[1..n -> Records] : n \in 0..MaxBatch}

Absent == [exists |-> FALSE, rows |-> {}]
EmptyTable == [exists |-> TRUE, rows |-> {}]
NotSeen == [seen |-> FALSE, exists |-> FALSE, rows |-> {}]
NoMarker == -1

VARIABLES
  tables,       \* committed schema: table name -> [exists, rows]
  pending,      \* rows inserted into the staging table, not yet committed
  pc,           \* position of the worker in the Defender source run
  batch,        \* the fetched vulnerabilities
  idx,          \* i of the batch insert loop
  pre,          \* the live table as it was when save_vulnerabilities was called
  failStep,     \* the statement at which save_vulnerabilities failed
  svOutcome,    \* "none", "returned", "raised"
  faults,       \* database faults injected so far
  observed,     \* what the concurrent reader last got from the live table
  cycZero,      \* a row count of 0 was read after a non-empty fetch
  snapshotRan,  \* record_snapshot was called in this cycle
  saveCalls,    \* calls of save_vulnerabilities in this cycle
  marker,       \* records_count appended to sync_state in this cycle, or NoMarker
  snapshotCommitted, \* a snapshot was committed in this cycle
  cycleResult,  \* "running", "ok", "error"
  writerFailed, \* save_vulnerabilities or its verification raised in this cycle
  initialRead,  \* create-initial-snapshot has read the live table: "none",
                \* "apart" from every save run, or "interleaved" with one
  earlier       \* what came before this run of save_vulnerabilities: whether
                \* a run of an earlier cycle raised, and the faults so far

wvars == <<tables, pending, pc, batch, idx, pre, failStep, svOutcome, faults,
           observed, cycZero, snapshotRan, saveCalls, marker,
           snapshotCommitted, cycleResult, writerFailed, initialRead,
           earlier>>

VARIABLES
  sync_in_progress, \* the module global of sync_service
  sync_progress,    \* the module global dict: stage, progress, flags, sources
  tpc,              \* position of each caller inside trigger_sync
  tsel,             \* selected_sources of each caller
  jpc,              \* position of the background thread each caller started
  jsel,             \* selected_sources the thread was started with
  jidx              \* index of the source loop (1-based)

svars == <<sync_in_progress, sync_progress, tpc, tsel, jpc, jsel, jidx>>

VARIABLES
  vulnerability_snapshots, \* committed rows of the table: their ids
  cve_device_snapshots,    \* committed rows: <<snapshot_id, cve_id, device_id, status, severity, last_seen>>
  txnSnapshots,            \* snapshot rows written in the open transaction
  txnPairs,                \* pair rows written in the open transaction
  auto_increment,          \* next id of vulnerability_snapshots
  rpc,                     \* position inside record_snapshot
  snapshot_id,             \* cursor.lastrowid of the call, 0 before the insert
  batch_data,              \* the pair tuples the call has to insert
  batchesDone,             \* executemany calls of the call that succeeded
  rfail,                   \* the statement at which the call failed
  rresult,                 \* what the call returned
  snapshotCalls,           \* calls of record_snapshot so far
  stats                    \* calculate_snapshot_statistics' result in the call

rvars == <<vulnerability_snapshots, cve_device_snapshots, txnSnapshots,
           txnPairs, auto_increment, rpc, snapshot_id, batch_data,
           batchesDone, rfail, rresult, snapshotCalls, stats>>

VARIABLES
  today,             \* the date of the clock
  snapshot_history,  \* committed snapshot rows: id, day of snapshot_time, counts
  trend_periods,     \* the committed rows of vulnerability_trend_periods
  trendWork,         \* the table as the call's open transaction sees it
  trpc,              \* position inside refresh_trend_periods
  target_periods,    \* the period types the call still has to process
  requested,         \* the period types and the anchor date of the call
  daily_series,      \* the call's daily series
  tfail,             \* period type (or step) at which the call failed
  tresult,           \* what the call returned, or "raised"
  refreshCalls,      \* calls of refresh_trend_periods so far
  materialized,      \* the (period type, period start) pairs ever committed
  settled,           \* the last call committed and nothing has changed since
  repeated           \* the call repeats the settled one: same arguments, same day

tvars == <<today, snapshot_history, trend_periods, trendWork, trpc,
           target_periods, requested, daily_series, tfail, tresult,
           refreshCalls, materialized, settled, repeated>>

\* fetch_trend_payload and the cache it reads through
VARIABLES
  cache,             \* the Redis entries: cache key -> cached mapping, {} for none
  fpc,               \* position inside fetch_trend_payload
  fetch,             \* the call: its target periods, the backend, its first read
  payload,           \* the mapping the last call returned
  fresult            \* how the last call ended

fvars == <<cache, fpc, fetch, payload, fresult>>

\* the detection flags of the live table and the stored indicators
VARIABLES
  detection,               \* flag column -> the cve_ids of the live rows flagged TRUE
  recordfuture_indicators  \* the CVE indicators stored by save_indicators

dvars == <<detection, recordfuture_indicators>>

vars == <<wvars, svars, rvars, tvars, fvars, dvars>>

\* ---------------------------------------------------------------- helpers
Min(a, b) == IF a < b THEN a ELSE b

\* A fault may strike a statement while the budget lasts.
FaultChoices == IF faults < MaxFaults THEN {FALSE, TRUE} ELSE {FALSE}
Spend(f) == IF f THEN faults + 1 ELSE faults

\* valid_count of the validation loop: dicts that carry an 'id'.
ValidRecords(b) == {i \in DOMAIN b : b[i] # NoId}
valid_count(b) == Cardinality(ValidRecords(b))
ValidIds(b) == {b[i] : i \in ValidRecords(b)}

\* initialize_database: CREATE TABLE IF NOT EXISTS for the live table; an
\* Error is logged and swallowed, leaving the schema as it was.
initialize_database(t, fault) ==
  IF fault \/ t[TABLE_VULNERABILITIES].exists THEN t
  ELSE [t EXCEPT ![TABLE_VULNERABILITIES] = EmptyTable]

\* RENAME TABLE a TO b succeeds when a exists and b does not.
CanRename(t, a, b) == t[a].exists /\ ~t[b].exists
Rename(t, a, b) == [t EXCEPT ![b] = t[a], ![a] = Absent]

DropIfExists(t, a) == [t EXCEPT ![a] = Absent]

\* ------------------------------------------------------------------ Init
\* The worker is idle and nothing is in flight.
WorkerIdle ==
  /\ pending = {}
  /\ pc = "idle"
  /\ batch = <<>>
  /\ idx = 0
  /\ pre = Absent
  /\ failStep = ""
  /\ svOutcome = "none"
  /\ faults = 0
  /\ observed = NotSeen
  /\ cycZero = FALSE
  /\ snapshotRan = FALSE
  /\ saveCalls = 0
  /\ marker = NoMarker
  /\ snapshotCommitted = FALSE
  /\ cycleResult = "idle"
  /\ writerFailed = FALSE
  /\ initialRead = "none"
  /\ earlier = [failed |-> FALSE, faults |-> 0]

WInit ==
  /\ tables = [n \in TableNames |-> Absent]
  /\ WorkerIdle

\* ------------------------------------------------- the Defender source run
\* sync_sources/defender_vulnerabilities.run: initialize_database, then
\* perform_full_sync.
RunDefenderSource ==
  /\ pc = "idle"
  /\ \E f \in FaultChoices :
       /\ tables' = initialize_database(tables, f)
       /\ faults' = Spend(f)
  /\ pc' = "fetch"
  /\ cycleResult' = "running"
  /\ batch' = <<>>
  /\ idx' = 0
  /\ pre' = Absent
  /\ failStep' = ""
  /\ svOutcome' = "none"
  /\ observed' = NotSeen
  /\ cycZero' = FALSE
  /\ snapshotRan' = FALSE
  /\ saveCalls' = 0
  /\ marker' = NoMarker
  /\ snapshotCommitted' = FALSE
  /\ writerFailed' = FALSE
  /\ earlier' = [failed |-> earlier.failed \/ svOutcome = "raised", faults |-> 0]
  /\ UNCHANGED <<pending, initialRead>>

\* The cycle ends with an exception that perform_full_sync re-raises.
CycleRaises ==
  /\ pc' = "cycle_end"
  /\ cycleResult' = "error"

\* sync_device_vulnerabilities_full, lines 31-37: the fetch and the branch
\* on an empty result.  A fetch that raises ends the cycle.
FetchVulnerabilities ==
  /\ pc = "fetch"
  /\ \/ \E b \in Batches :
          /\ batch' = b
          /\ pc' = IF Len(b) > 0 THEN "sv_entry" ELSE "sd_marker"
          /\ UNCHANGED cycleResult
     \/ /\ CycleRaises
        /\ UNCHANGED batch
  /\ UNCHANGED <<tables, pending, idx, pre, failStep, svOutcome, faults,
                 observed, cycZero, snapshotRan, saveCalls,
                 marker, snapshotCommitted, writerFailed, initialRead, earlier>>

\* ------------------------------------------------- save_vulnerabilities
\* Entry, lines 155-166.  The caller passes a non-empty list.
SV_Entry ==
  /\ pc = "sv_entry"
  /\ Len(batch) > 0
  /\ pre' = tables[TABLE_VULNERABILITIES]
  /\ saveCalls' = saveCalls + 1
  /\ observed' = NotSeen
  /\ pc' = "sv_step0"
  /\ earlier' = [earlier EXCEPT !.faults = faults]
  /\ UNCHANGED <<tables, pending, batch, idx, failStep, svOutcome, faults,
                 cycZero, snapshotRan, cycleResult,
                 marker, snapshotCommitted, writerFailed, initialRead>>

\* An exception inside the try block: control passes to the except clauses.
Fail(step) ==
  /\ pc' = "sv_handler"
  /\ failStep' = step

\* Step 0, lines 168-180: SELECT 1 FROM vulnerabilities; on Error the table
\* is created by initialize_database.
SV_EnsureLive ==
  /\ pc = "sv_step0"
  /\ \E f \in FaultChoices :
       /\ tables' = IF tables[TABLE_VULNERABILITIES].exists
                    THEN tables
                    ELSE initialize_database(tables, f)
       /\ faults' = IF tables[TABLE_VULNERABILITIES].exists
                    THEN faults ELSE Spend(f)
  /\ pc' = "sv_step1"
  /\ UNCHANGED <<pending, batch, idx, pre, failStep, svOutcome, observed,
                 cycZero, snapshotRan, saveCalls, cycleResult,
                 marker, snapshotCommitted, writerFailed, initialRead, earlier>>

\* Step 1, lines 182-234: CREATE TABLE IF NOT EXISTS vulnerabilities_temp
\* (LIKE the live table, or with the explicit structure when LIKE fails).
\* An existing staging table is kept with its rows.  A fault of the
\* fallback statement leaves the try block.
SV_CreateTemp ==
  /\ pc = "sv_step1"
  /\ \E f \in FaultChoices :
       /\ faults' = Spend(f)
       /\ IF f
          THEN /\ Fail("create_temp")
               /\ UNCHANGED tables
          ELSE /\ tables' = IF tables[temp_table_name].exists THEN tables
                            ELSE [tables EXCEPT ![temp_table_name] = EmptyTable]
               /\ pc' = "sv_validate"
               /\ UNCHANGED failStep
  /\ UNCHANGED <<pending, batch, idx, pre, svOutcome, observed, cycZero,
                 snapshotRan, saveCalls, cycleResult,
                 marker, snapshotCommitted, writerFailed, initialRead, earlier>>

\* The rows batch_data is built from, lines 280-323: the loop runs over
\* every record of the input, valid or not, and reads vuln['id'].
PreparedRecords(b) == DOMAIN b
\* Building batch_data raises (KeyError, or AttributeError for a non-dict)
\* when a prepared record has no 'id'.
PrepareRaises(b) == \E i \in PreparedRecords(b) : b[i] = NoId

\* Step 2, lines 236-323: validation, the early return when no record is
\* valid, and the construction of batch_data.
SV_ValidatePrepare ==
  /\ pc = "sv_validate"
  /\ IF valid_count(batch) = 0
     THEN /\ pc' = "sv_exit"
          /\ svOutcome' = "returned"
          /\ UNCHANGED <<failStep, idx>>
     ELSE IF PrepareRaises(batch)
     THEN /\ Fail("prepare")
          /\ UNCHANGED <<svOutcome, idx>>
     ELSE /\ pc' = "sv_insert"
          /\ idx' = 0
          /\ UNCHANGED <<svOutcome, failStep>>
  /\ UNCHANGED <<tables, pending, batch, pre, faults, observed, cycZero,
                 snapshotRan, saveCalls, cycleResult,
                 marker, snapshotCommitted, writerFailed, initialRead, earlier>>

\* batch = batch_data[i:i + batch_size]
Slice(b, i) == {b[k] : k \in (i + 1)..Min(i + BatchSize, Len(b))}
SliceLen(b, i) == Min(i + BatchSize, Len(b)) - i
\* id is the PRIMARY KEY of the staging table: the multi-row INSERT of one
\* executemany fails as a whole on a duplicate.
DuplicateKey(b, i) ==
  \/ Cardinality(Slice(b, i)) < SliceLen(b, i)
  \/ Slice(b, i) \cap (tables[temp_table_name].rows \cup pending) # {}

\* Step 3, lines 327-330: one executemany of the insert loop.
SV_InsertBatch ==
  /\ pc = "sv_insert"
  /\ idx < Len(batch)
  /\ \E f \in FaultChoices :
       /\ faults' = Spend(f)
       /\ IF f \/ DuplicateKey(batch, idx) \/ ~tables[temp_table_name].exists
          THEN /\ Fail("insert")
               /\ UNCHANGED <<pending, idx>>
          ELSE /\ pending' = pending \cup Slice(batch, idx)
               /\ idx' = idx + BatchSize
               /\ pc' = IF idx + BatchSize < Len(batch)
                        THEN "sv_insert" ELSE "sv_commit"
               /\ UNCHANGED failStep
  /\ UNCHANGED <<tables, batch, pre, svOutcome, observed, cycZero,
                 snapshotRan, saveCalls, cycleResult,
                 marker, snapshotCommitted, writerFailed, initialRead, earlier>>

\* connection.commit(), line 332.
SV_Commit ==
  /\ pc = "sv_commit"
  /\ \E f \in FaultChoices :
       /\ faults' = Spend(f)
       /\ IF f
          THEN /\ Fail("commit")
               /\ UNCHANGED <<tables, pending>>
          ELSE /\ tables' = [tables EXCEPT ![temp_table_name].rows = @ \cup pending]
               /\ pending' = {}
               /\ pc' = "sv_fk_off"
               /\ UNCHANGED failStep
  /\ UNCHANGED <<batch, idx, pre, svOutcome, observed, cycZero, snapshotRan,
                 saveCalls, cycleResult,
                 marker, snapshotCommitted, writerFailed, initialRead, earlier>>

\* SET FOREIGN_KEY_CHECKS = 0, line 337.
SV_ForeignKeysOff ==
  /\ pc = "sv_fk_off"
  /\ \E f \in FaultChoices :
       /\ faults' = Spend(f)
       /\ IF f
          THEN /\ Fail("fk_off")
          ELSE /\ pc' = "sv_rename_live"
               /\ UNCHANGED failStep
  /\ UNCHANGED <<tables, pending, batch, idx, pre, svOutcome, observed,
                 cycZero, snapshotRan, saveCalls, cycleResult,
                 marker, snapshotCommitted, writerFailed, initialRead, earlier>>

\* Lines 339-349: SELECT 1 FROM vulnerabilities, then RENAME TABLE
\* vulnerabilities TO vulnerabilities_old; any Error is taken to mean that
\* the live table does not exist and the rename is skipped.
SV_RenameLiveToOld ==
  /\ pc = "sv_rename_live"
  /\ \E f \in FaultChoices :
       /\ faults' = Spend(f)
       /\ tables' = IF ~f /\ CanRename(tables, TABLE_VULNERABILITIES, old_table_name)
                    THEN Rename(tables, TABLE_VULNERABILITIES, old_table_name)
                    ELSE tables
  /\ pc' = "sv_rename_temp"
  /\ UNCHANGED <<pending, batch, idx, pre, failStep, svOutcome, observed,
                 cycZero, snapshotRan, saveCalls, cycleResult,
                 marker, snapshotCommitted, writerFailed, initialRead, earlier>>

\* Line 352: RENAME TABLE vulnerabilities_temp TO vulnerabilities.
SV_RenameTempToLive ==
  /\ pc = "sv_rename_temp"
  /\ \E f \in FaultChoices :
       /\ faults' = Spend(f)
       /\ IF f \/ ~CanRename(tables, temp_table_name, TABLE_VULNERABILITIES)
          THEN /\ Fail("rename_temp")
               /\ UNCHANGED tables
          ELSE /\ tables' = Rename(tables, temp_table_name, TABLE_VULNERABILITIES)
               /\ pc' = "sv_drop_old"
               /\ UNCHANGED failStep
  /\ UNCHANGED <<pending, batch, idx, pre, svOutcome, observed, cycZero,
                 snapshotRan, saveCalls, cycleResult,
                 marker, snapshotCommitted, writerFailed, initialRead, earlier>>

\* Lines 355-360: DROP TABLE IF EXISTS vulnerabilities_old; an Error is
\* logged as a warning.
SV_DropOld ==
  /\ pc = "sv_drop_old"
  /\ \E f \in FaultChoices :
       /\ faults' = Spend(f)
       /\ tables' = IF f THEN tables ELSE DropIfExists(tables, old_table_name)
  /\ pc' = "sv_fk_on"
  /\ UNCHANGED <<pending, batch, idx, pre, failStep, svOutcome, observed,
                 cycZero, snapshotRan, saveCalls, cycleResult,
                 marker, snapshotCommitted, writerFailed, initialRead, earlier>>

\* Lines 362-363: SET FOREIGN_KEY_CHECKS = 1 and connection.commit().
SV_ForeignKeysOnCommit ==
  /\ pc = "sv_fk_on"
  /\ \E f \in FaultChoices :
       /\ faults' = Spend(f)
       /\ IF f
          THEN /\ Fail("fk_on")
          ELSE /\ pc' = "sv_verify"
               /\ UNCHANGED failStep
  /\ UNCHANGED <<tables, pending, batch, idx, pre, svOutcome, observed,
                 cycZero, snapshotRan, saveCalls, cycleResult,
                 marker, snapshotCommitted, writerFailed, initialRead, earlier>>

\* SELECT COUNT(*) FROM vulnerabilities.
CountRows(t) == Cardinality(t[TABLE_VULNERABILITIES].rows)

\* Line 373: if saved_count == 0: raise.
VerificationFails(saved_count) == saved_count = 0

\* Step 5, lines 365-382: count the rows of the live table; zero rows raise,
\* a mismatch with len(batch_data) is only logged.
SV_Verify ==
  /\ pc = "sv_verify"
  /\ \E f \in FaultChoices :
       /\ faults' = Spend(f)
       /\ IF f \/ ~tables[TABLE_VULNERABILITIES].exists
          THEN /\ Fail("verify_query")
               /\ UNCHANGED <<svOutcome, cycZero>>
          ELSE /\ cycZero' = (cycZero \/ CountRows(tables) = 0)
               /\ IF VerificationFails(CountRows(tables))
                  THEN /\ Fail("verify_zero")
                       /\ UNCHANGED svOutcome
                  ELSE /\ pc' = "sv_exit"
                       /\ svOutcome' = "returned"
                       /\ UNCHANGED failStep
  /\ UNCHANGED <<tables, pending, batch, idx, pre, observed, snapshotRan,
                 saveCalls, cycleResult,
                 marker, snapshotCommitted, writerFailed, initialRead, earlier>>

\* A rollback that leaves the writes of the transaction in place.
Rollback_KeepsWrites(p) == p

\* connection.rollback() of the except clauses (save_vulnerabilities lines
\* 386 and 399, record_snapshot lines 623 and 628): the uncommitted writes
\* p of the transaction are discarded.
Rollback(p) == {}

\* A cleanup that names the live table instead of the staging table.
CleanupTable_Live == TABLE_VULNERABILITIES

\* The table the except clauses drop, lines 391 and 404.
CleanupTable == temp_table_name

\* The except clauses, lines 384-409: rollback, DROP TABLE IF EXISTS
\* vulnerabilities_temp (an Error of the drop is logged), re-raise.
SV_Handler ==
  /\ pc = "sv_handler"
  /\ pending' = Rollback(pending)
  /\ \E f \in FaultChoices :
       /\ faults' = Spend(f)
       /\ tables' = IF f THEN tables ELSE DropIfExists(tables, CleanupTable)
  /\ svOutcome' = "raised"
  /\ pc' = "sv_exit"
  /\ UNCHANGED <<batch, idx, pre, failStep, observed, cycZero, snapshotRan,
                 saveCalls, cycleResult,
                 marker, snapshotCommitted, writerFailed, initialRead, earlier>>

\* The positions at which a save_vulnerabilities run is under way.
SaveRunning ==
  pc \in {"sv_step0", "sv_step1", "sv_validate", "sv_insert", "sv_commit",
          "sv_fk_off", "sv_rename_live", "sv_rename_temp", "sv_drop_old",
          "sv_fk_on", "sv_verify", "sv_handler"}

\* A reader on its own connection queries the live table during the run.
ReaderQuery ==
  /\ SaveRunning
  /\ observed' = [seen |-> TRUE,
                  exists |-> tables[TABLE_VULNERABILITIES].exists,
                  rows |-> tables[TABLE_VULNERABILITIES].rows]
  /\ UNCHANGED <<tables, pending, pc, batch, idx, pre, failStep, svOutcome,
                 faults, cycZero, snapshotRan, saveCalls, cycleResult,
                 marker, snapshotCommitted, writerFailed, initialRead, earlier>>

\* POST /api/create-initial-snapshot (routes/snapshots.py lines 19-22,
\* snapshot_service.create_initial_snapshot lines 14-45): a request thread
\* with a connection of its own calls initialize_database and then
\* record_snapshot, which reads the live table; neither looks at
\* sync_in_progress.  The snapshot rows it writes are those of
\* record_snapshot.
CreateInitialSnapshot ==
  /\ \E f \in FaultChoices :
       /\ tables' = initialize_database(tables, f)
       /\ faults' = Spend(f)
  /\ initialRead' = IF SaveRunning \/ initialRead = "interleaved"
                    THEN "interleaved" ELSE "apart"
  /\ UNCHANGED <<pending, pc, batch, idx, pre, failStep, svOutcome, observed,
                 cycZero, snapshotRan, saveCalls, marker, snapshotCommitted,
                 cycleResult, writerFailed, earlier>>

\* ------------------------------------- sync_device_vulnerabilities_full
\* An except clause that logs the writer's exception and goes on.
SwallowWriterError ==
  /\ pc' = "sd_verify"
  /\ UNCHANGED cycleResult

\* Lines 64-66: except Exception: log and raise.
PropagateWriterError == CycleRaises

\* save_vulnerabilities has returned or raised (lines 39 and 64-66).
SD_AfterSave ==
  /\ pc = "sv_exit"
  /\ writerFailed' = (svOutcome = "raised")
  /\ earlier' = [earlier EXCEPT !.faults = 0]
  /\ IF svOutcome = "raised"
     THEN PropagateWriterError
     ELSE /\ pc' = "sd_verify"
          /\ UNCHANGED cycleResult
  /\ UNCHANGED <<tables, pending, batch, idx, pre, failStep, svOutcome,
                 faults, observed, cycZero, snapshotRan, saveCalls, marker,
                 snapshotCommitted, initialRead>>

\* A caller that does not treat an empty live table as an error.
ZeroRowsFatal_Ignored(saved_count) == FALSE

\* Line 49: if saved_count == 0: raise.
ZeroRowsFatal(saved_count) == saved_count = 0

\* Lines 41-50: the caller counts the rows of the live table again.
SD_Verify ==
  /\ pc = "sd_verify"
  /\ \E f \in FaultChoices :
       /\ faults' = Spend(f)
       /\ IF f \/ ~tables[TABLE_VULNERABILITIES].exists
          THEN /\ CycleRaises
               /\ writerFailed' = TRUE
               /\ UNCHANGED cycZero
          ELSE /\ cycZero' = (cycZero \/ CountRows(tables) = 0)
               /\ IF ZeroRowsFatal(CountRows(tables))
                  THEN /\ CycleRaises
                       /\ writerFailed' = TRUE
                  ELSE /\ pc' = "sd_marker"
                       /\ UNCHANGED <<cycleResult, writerFailed, initialRead, earlier>>
  /\ UNCHANGED <<tables, pending, batch, idx, pre, failStep, svOutcome,
                 observed, snapshotRan, saveCalls, marker, snapshotCommitted,
                 initialRead, earlier>>

\* update_sync_time, repository.py lines 121-138, called at sync.py lines 56
\* and 62: one row appended to sync_state; an Error is logged and rolled
\* back.  The count is saved_count, or 0 when the fetch was empty.
SD_RecordMarker ==
  /\ pc = "sd_marker"
  /\ \E f \in FaultChoices :
       /\ faults' = Spend(f)
       /\ marker' = IF f THEN NoMarker
                    ELSE IF Len(batch) > 0 THEN CountRows(tables) ELSE 0
  /\ pc' = "catalog"
  /\ UNCHANGED <<tables, pending, batch, idx, pre, failStep, svOutcome,
                 observed, cycZero, snapshotRan, saveCalls, snapshotCommitted, writerFailed, initialRead, earlier,
                 cycleResult>>

\* ------------------------------------------------------ perform_full_sync
\* sync_vulnerability_catalog, sync.py lines 86 and 136-146: it writes its
\* own table; a fetch or an insert that raises ends the cycle.  Line 140
\* calls service.fetch_vulnerability_catalog(), a method DefenderService
\* (service.py lines 17-105) does not define: with this service the call
\* raises AttributeError, and the returning branch is the one of a service
\* that has the method.
SyncCatalog ==
  /\ pc = "catalog"
  /\ \/ /\ pc' = "snapshot"
        /\ UNCHANGED cycleResult
     \/ CycleRaises
  /\ UNCHANGED <<tables, pending, batch, idx, pre, failStep, svOutcome,
                 faults, observed, cycZero, snapshotRan, saveCalls, marker,
                 snapshotCommitted, writerFailed, initialRead, earlier>>

\* Lines 88-96: record_snapshot(connection); None raises.  record_snapshot
\* returns None on any database error (a missing live table is one) and
\* has then committed nothing.
RecordSnapshotCall ==
  /\ pc = "snapshot"
  /\ snapshotRan' = TRUE
  /\ \E f \in FaultChoices :
       /\ faults' = Spend(f)
       /\ IF f \/ ~tables[TABLE_VULNERABILITIES].exists
          THEN /\ CycleRaises
               /\ UNCHANGED snapshotCommitted
          ELSE /\ snapshotCommitted' = TRUE
               /\ pc' = "cycle_end"
               /\ cycleResult' = "ok"
  /\ UNCHANGED <<tables, pending, batch, idx, pre, failStep, svOutcome,
                 observed, cycZero, saveCalls, marker, writerFailed, initialRead, earlier>>

\* The runner has returned or raised; the worker is free for the next run.
CycleEnd ==
  /\ pc = "cycle_end"
  /\ pc' = "idle"
  /\ UNCHANGED <<tables, pending, batch, idx, pre, failStep, svOutcome,
                 faults, observed, cycZero, snapshotRan, saveCalls, marker,
                 snapshotCommitted, writerFailed, initialRead, earlier, cycleResult>>

WNext ==
  \/ RunDefenderSource
  \/ FetchVulnerabilities
  \/ SV_Entry
  \/ SV_EnsureLive
  \/ SV_CreateTemp
  \/ SV_ValidatePrepare
  \/ SV_InsertBatch
  \/ SV_Commit
  \/ SV_ForeignKeysOff
  \/ SV_RenameLiveToOld
  \/ SV_RenameTempToLive
  \/ SV_DropOld
  \/ SV_ForeignKeysOnCommit
  \/ SV_Verify
  \/ SV_Handler
  \/ ReaderQuery
  \/ CreateInitialSnapshot
  \/ SD_AfterSave
  \/ SD_Verify
  \/ SD_RecordMarker
  \/ SyncCatalog
  \/ RecordSnapshotCall
  \/ CycleEnd

\* ------------------------------------------------------------ sync_service
\* Two request threads of the API server call trigger_sync, each
\* repeatedly: the guard is one boolean, and two threads are what its
\* interleavings need.
Callers == {1, 2}
\* SYNC_SOURCES of the registry, in ascending order; a source is named by
\* its place in that order.
SYNC_SOURCES == <<"defender_vulnerabilities", "threat_feeds", "recordfuture_flags">>
SourceKeys == 1..MaxSources
Key(i) == SYNC_SOURCES[i]

\* sorted(selected): the sources in ascending order.
SortedSeq(S) ==
  CHOOSE q \in [1..Cardinality(S) -> S] :
    \A i, j \in 1..Cardinality(S) : i < j => q[i] < q[j]

\* _resolve_selected_sources, lines 209-223: the requested keys, or the
\* default keys when none are requested, in the order of the registry.
Selections == {SortedSeq(S) : S \in (SUBSET SourceKeys) \ {{}}}

\* int((index / total) * 100), with the 0-based index of enumerate.
Percent(index, total) == (index * 100) \div total

SInit ==
  /\ sync_in_progress = FALSE
  /\ sync_progress = [stage |-> "", progress |-> 0, is_complete |-> FALSE,
                      is_syncing |-> FALSE, sources |-> <<>>]
  /\ tpc = [c \in Callers |-> "idle"]
  /\ tsel = [c \in Callers |-> <<>>]
  /\ jpc = [c \in Callers |-> "none"]
  /\ jsel = [c \in Callers |-> <<>>]
  /\ jidx = [c \in Callers |-> 0]

\* _set_progress, lines 97-109.
SetProgress(stage, value, complete, syncing) ==
  sync_progress' = [sync_progress EXCEPT !.stage = stage, !.progress = value,
                                          !.is_complete = complete,
                                          !.is_syncing = syncing]

\* _update_source_state, lines 86-94: the first entry with the key.
UpdateSourceState(key, status) ==
  LET src == sync_progress.sources
      hits == {i \in DOMAIN src : src[i].key = key}
  IN  sync_progress' =
        IF hits = {} THEN sync_progress
        ELSE LET first == CHOOSE i \in hits : \A k \in hits : i <= k
             IN [sync_progress EXCEPT !.sources[first].status = status]

\* trigger_sync, lines 229-230: the guard is read; a set guard raises
\* 'Sync is already in progress' and the call ends having changed nothing.
\* A caller is taken up again only once the thread it started has ended.
T_Check(c) ==
  /\ tpc[c] = "idle"
  /\ jpc[c] = "none"
  /\ tpc' = [tpc EXCEPT ![c] = IF sync_in_progress THEN "idle" ELSE "resolve"]
  /\ UNCHANGED <<sync_in_progress, sync_progress, tsel, jpc, jsel, jidx>>

\* Lines 232-233: the sources are resolved (an unknown key raises and the
\* call ends), then the guard is set.
T_SetInProgress(c) ==
  /\ tpc[c] = "resolve"
  /\ \/ \E q \in Selections :
          /\ tsel' = [tsel EXCEPT ![c] = q]
          /\ sync_in_progress' = TRUE
          /\ tpc' = [tpc EXCEPT ![c] = "init_sources"]
     \/ /\ tpc' = [tpc EXCEPT ![c] = "idle"]
        /\ UNCHANGED <<tsel, sync_in_progress>>
  /\ UNCHANGED <<sync_progress, jpc, jsel, jidx>>

\* Line 234, _initialize_source_states (lines 73-83).
T_InitSources(c) ==
  /\ tpc[c] = "init_sources"
  /\ sync_progress' =
       [sync_progress EXCEPT !.sources =
          [i \in DOMAIN tsel[c] |-> [key |-> Key(tsel[c][i]), status |-> "pending"]]]
  /\ tpc' = [tpc EXCEPT ![c] = "init_progress"]
  /\ UNCHANGED <<sync_in_progress, tsel, jpc, jsel, jidx>>

\* Line 235.
T_SetProgress(c) ==
  /\ tpc[c] = "init_progress"
  /\ SetProgress("initializing", 0, FALSE, TRUE)
  /\ tpc' = [tpc EXCEPT ![c] = "start_thread"]
  /\ UNCHANGED <<sync_in_progress, tsel, jpc, jsel, jidx>>

\* Lines 237-245: the daemon thread is started and 'Sync started' returned.
T_StartThread(c) ==
  /\ tpc[c] = "start_thread"
  /\ jpc' = [jpc EXCEPT ![c] = "source_running"]
  /\ jsel' = [jsel EXCEPT ![c] = tsel[c]]
  /\ jidx' = [jidx EXCEPT ![c] = 1]
  /\ tsel' = [tsel EXCEPT ![c] = <<>>]
  /\ tpc' = [tpc EXCEPT ![c] = "idle"]
  /\ UNCHANGED <<sync_in_progress, sync_progress>>

\* _run_sync_job, line 255.
J_SourceRunning(c) ==
  /\ jpc[c] = "source_running"
  /\ UpdateSourceState(Key(jsel[c][jidx[c]]), "running")
  /\ jpc' = [jpc EXCEPT ![c] = "progress_start"]
  /\ UNCHANGED <<sync_in_progress, tpc, tsel, jsel, jidx>>

\* Line 256.
J_ProgressStart(c) ==
  /\ jpc[c] = "progress_start"
  /\ SetProgress(Key(jsel[c][jidx[c]]), Percent(jidx[c] - 1, Len(jsel[c])), FALSE, TRUE)
  /\ jpc' = [jpc EXCEPT ![c] = "runner"]
  /\ UNCHANGED <<sync_in_progress, tpc, tsel, jsel, jidx>>

\* Lines 258-260: the runner returns a success, returns a result with
\* success = False (turned into an exception) or raises.
J_Runner(c) ==
  /\ jpc[c] = "runner"
  /\ \E o \in {"ok", "reported_failure", "raised"} :
       jpc' = [jpc EXCEPT ![c] = IF o = "ok" THEN "source_success"
                                 ELSE "source_error"]
  /\ UNCHANGED <<sync_in_progress, sync_progress, tpc, tsel, jsel, jidx>>

\* Line 262.
J_SourceSuccess(c) ==
  /\ jpc[c] = "source_success"
  /\ UpdateSourceState(Key(jsel[c][jidx[c]]), "success")
  /\ jpc' = [jpc EXCEPT ![c] = "progress_end"]
  /\ UNCHANGED <<sync_in_progress, tpc, tsel, jsel, jidx>>

\* Lines 263-264, and the next turn of the loop.
J_ProgressEnd(c) ==
  /\ jpc[c] = "progress_end"
  /\ SetProgress(Key(jsel[c][jidx[c]]), Percent(jidx[c], Len(jsel[c])), FALSE, TRUE)
  /\ IF jidx[c] < Len(jsel[c])
     THEN /\ jidx' = [jidx EXCEPT ![c] = jidx[c] + 1]
          /\ jpc' = [jpc EXCEPT ![c] = "source_running"]
     ELSE /\ jpc' = [jpc EXCEPT ![c] = "complete"]
          /\ UNCHANGED jidx
  /\ UNCHANGED <<sync_in_progress, tpc, tsel, jsel>>

\* Line 267.
J_SourceError(c) ==
  /\ jpc[c] = "source_error"
  /\ UpdateSourceState(Key(jsel[c][jidx[c]]), "error")
  /\ jpc' = [jpc EXCEPT ![c] = "progress_error"]
  /\ UNCHANGED <<sync_in_progress, tpc, tsel, jsel, jidx>>

\* Lines 268-269: the error stage, then return.
J_ProgressError(c) ==
  /\ jpc[c] = "progress_error"
  /\ SetProgress("error", Percent(jidx[c] - 1, Len(jsel[c])), TRUE, FALSE)
  /\ jpc' = [jpc EXCEPT ![c] = "finally"]
  /\ UNCHANGED <<sync_in_progress, tpc, tsel, jsel, jidx>>

\* Line 271.
J_Complete(c) ==
  /\ jpc[c] = "complete"
  /\ SetProgress("complete", 100, TRUE, FALSE)
  /\ jpc' = [jpc EXCEPT ![c] = "finally"]
  /\ UNCHANGED <<sync_in_progress, tpc, tsel, jsel, jidx>>

\* A guard that is cleared after the loop only, not on the return of the
\* except clause.
J_Finally_AfterLoopOnly(c) ==
  /\ jpc[c] = "finally"
  /\ sync_in_progress' = (sync_in_progress /\ sync_progress.stage = "error")
  /\ jpc' = [jpc EXCEPT ![c] = "none"]
  /\ jsel' = [jsel EXCEPT ![c] = <<>>]
  /\ jidx' = [jidx EXCEPT ![c] = 0]
  /\ UNCHANGED <<sync_progress, tpc, tsel>>

\* Lines 272-273: finally: sync_in_progress = False; the thread ends.
J_Finally(c) ==
  /\ jpc[c] = "finally"
  /\ sync_in_progress' = FALSE
  /\ jpc' = [jpc EXCEPT ![c] = "none"]
  /\ jsel' = [jsel EXCEPT ![c] = <<>>]
  /\ jidx' = [jidx EXCEPT ![c] = 0]
  /\ UNCHANGED <<sync_progress, tpc, tsel>>

TriggerStep(c) ==
  \/ T_SetInProgress(c)
  \/ T_InitSources(c)
  \/ T_SetProgress(c)
  \/ T_StartThread(c)

JobStep(c) ==
  \/ J_SourceRunning(c)
  \/ J_ProgressStart(c)
  \/ J_Runner(c)
  \/ J_SourceSuccess(c)
  \/ J_ProgressEnd(c)
  \/ J_SourceError(c)
  \/ J_ProgressError(c)
  \/ J_Complete(c)
  \/ J_Finally(c)

SNext == \E c \in Callers : T_Check(c) \/ TriggerStep(c) \/ JobStep(c)

\* ------------------------------------------------------ record_snapshot
\* The columns of a live row that record_snapshot reads.  The Defender id
\* of a row is composed of its device, software and CVE, so the row id
\* determines cve_id and device_id; several ids (different software) share
\* a pair, and 0 stands for a NULL or empty column.
RowIds == 1..MaxRowId
cve_id(r) == r % (MaxCve + 1)
device_id(r) == (((r - 1) \div (MaxCve + 1)) + 1) % (MaxDevice + 1)

\* The other columns differ between the rows of a pair: the n-th row of a
\* pair (n = Variant + 1, another software version) was seen later and
\* carries the n-th status and severity text.
Variant(r) == (r - 1) \div ((MaxCve + 1) * (MaxDevice + 1))
StatusTexts == <<"Fixed", "Active">>
SeverityTexts == <<"1 - Critical", "2 - High", "3 - Medium", "4 - Low", "None">>
\* The source reports a closed finding as 'Fixed' or as 'Resolved'
\* (repository_helpers.py:71): the first row of the last CVE carries the
\* second text.
status(r) ==
  IF Variant(r) % Len(StatusTexts) = 0 /\ cve_id(r) = MaxCve
  THEN "Resolved"
  ELSE StatusTexts[(Variant(r) % Len(StatusTexts)) + 1]
vulnerability_severity_level(r) ==
  SeverityTexts[(Variant(r) % Len(SeverityTexts)) + 1]
last_seen_timestamp(r) == Variant(r) + 1

\* Lines 563-579: SELECT ... WHERE cve_id and device_id are not empty
\* GROUP BY cve_id, device_id: one record per pair.
cve_device_records(rows) ==
  {<<cve_id(r), device_id(r)>> : r \in {q \in rows : cve_id(q) # 0 /\ device_id(q) # 0}}

\* The rows of a group of the pair query.
GroupRows(rows, p) == {r \in rows : cve_id(r) = p[1] /\ device_id(r) = p[2]}

\* MAX() over strings: the order of the column's collation, in which
\* 'Active' sorts before 'Fixed' and 'Fixed' before 'Resolved'.
StringRank(t) == IF t = "Active" THEN 1 ELSE IF t = "Fixed" THEN 2 ELSE 3
MaxString(S) == CHOOSE t \in S : \A u \in S : StringRank(u) <= StringRank(t)

\* Line 568: COALESCE(MAX(CASE WHEN status IS NOT NULL AND status != ''
\* THEN status END), 'Active') of the group: an aggregate of its own, taken
\* apart from MAX(last_seen_timestamp) of line 572.
GroupStatus(rows, p) ==
  LET S == {status(r) : r \in {q \in GroupRows(rows, p) : status(q) # ""}}
  IN  IF S = {} THEN "Active" ELSE MaxString(S)

\* The collation order of the severity texts: a string comparison, digit
\* by digit and letter by letter, so '1 - Critical' sorts first and
\* '4 - Low' after it, with the texts that start with a letter last.
SeverityCollation == <<"1 - Critical", "2 - High", "3 - Medium", "4 - Low", "None">>
CollationRank(t) == CHOOSE i \in 1..Len(SeverityCollation) : SeverityCollation[i] = t

\* Line 569: MAX(vulnerability_severity_level) as severity, the string
\* maximum of the group's VARCHAR column.
GroupSeverity(rows, p) ==
  LET S == {vulnerability_severity_level(r) : r \in GroupRows(rows, p)}
  IN  CHOOSE t \in S : \A u \in S : CollationRank(u) <= CollationRank(t)

\* Line 572: MAX(last_seen_timestamp) of the group's DATETIME column.
GroupLastSeen(rows, p) ==
  LET S == {last_seen_timestamp(r) : r \in GroupRows(rows, p)}
  IN  CHOOSE t \in S : \A u \in S : u <= t

\* repository_helpers.calculate_snapshot_statistics, lines 232-237:
\* COUNT(DISTINCT cve_id) over the rows with a cve_id.
DistinctCves(rows) == {cve_id(r) : r \in {q \in rows : cve_id(q) # 0}}

\* Lines 243-254: per severity text, COUNT(DISTINCT cve_id).
severity_results(rows) ==
  [t \in {vulnerability_severity_level(r) : r \in {q \in rows : cve_id(q) # 0}} |->
     Cardinality({cve_id(r) : r \in {q \in rows : cve_id(q) # 0
                                       /\ vulnerability_severity_level(q) = t}})]

\* repository_helpers.parse_severity_counts, lines 11-50: the bucket a
\* severity text falls in, or "" when no branch matches.
SeverityBucket(t) ==
  CASE t = "1 - Critical" -> "critical"
    [] t = "2 - High" -> "high"
    [] t = "3 - Medium" -> "medium"
    [] t = "4 - Low" -> "low"
    [] OTHER -> ""

\* parse_severity_counts: counts[bucket] = count of the text's result row.
parse_severity_counts(res) ==
  [b \in {"critical", "high", "medium", "low"} |->
     LET hit == {t \in DOMAIN res : SeverityBucket(t) = b}
     IN  IF hit = {} THEN 0 ELSE res[CHOOSE t \in hit : TRUE]]

\* Lines 259-272: per status text, COUNT(DISTINCT cve_id), one result row
\* {status, count} per text.
status_results(rows) ==
  {[status |-> t,
    count |-> Cardinality({cve_id(r) : r \in {q \in rows : cve_id(q) # 0 /\ status(q) = t}})] :
     t \in {status(r) : r \in {q \in rows : cve_id(q) # 0 /\ status(q) # ""}}}

\* The orders in which fetchall() may return the rows of a GROUP BY
\* without ORDER BY.
FetchOrders(S) ==
  {f \in [1..Cardinality(S) -> S] : \A i, j \in 1..Cardinality(S) : f[i] = f[j] => i = j}

\* repository_helpers.parse_status_counts, lines 53-76: the bucket a
\* status text falls in, or "" when no branch matches.
StatusBucket(t) ==
  CASE t \in {"Fixed", "Resolved"} -> "fixed"
    [] t \in {"Active", "Open"} -> "active"
    [] OTHER -> ""

\* parse_status_counts: the loop assigns counts[bucket] = count for every
\* result row in turn.
RECURSIVE parse_status_counts(_, _)
parse_status_counts(results, counts) ==
  IF results = <<>>
  THEN counts
  ELSE LET row == Head(results)
           b == StatusBucket(row.status)
       IN  parse_status_counts(Tail(results),
             IF b = "" THEN counts ELSE [counts EXCEPT ![b] = row.count])

calculate_snapshot_statistics(rows, fetched) ==
  [total_vulnerabilities |-> Cardinality(DistinctCves(rows)),
   severity_counts |-> parse_severity_counts(severity_results(rows)),
   status_counts |-> parse_status_counts(fetched, [fixed |-> 0, active |-> 0])]

NoStatistics ==
  [total_vulnerabilities |-> 0,
   severity_counts |-> [b \in {"critical", "high", "medium", "low"} |-> 0],
   status_counts |-> [fixed |-> 0, active |-> 0]]

Running == [kind |-> "running", id |-> 0]
None == [kind |-> "None", id |-> 0]
Returned(i) == [kind |-> "id", id |-> i]

RInit ==
  /\ vulnerability_snapshots = {}
  /\ cve_device_snapshots = {}
  /\ txnSnapshots = {}
  /\ txnPairs = {}
  /\ auto_increment = 1
  /\ rpc = "idle"
  /\ snapshot_id = 0
  /\ batch_data = {}
  /\ batchesDone = 0
  /\ rfail = ""
  /\ rresult = Running
  /\ snapshotCalls = 0
  /\ stats = NoStatistics

\* An Error inside the try block: control passes to the except clause.
RS_Fail(step) ==
  /\ rpc' = "handler"
  /\ rfail' = step

\* The call, lines 510-527.
RS_Call ==
  /\ rpc = "idle"
  /\ snapshotCalls < MaxSnapshots
  /\ snapshotCalls' = snapshotCalls + 1
  /\ rpc' = "statistics"
  /\ snapshot_id' = 0
  /\ batch_data' = {}
  /\ batchesDone' = 0
  /\ rfail' = ""
  /\ rresult' = Running
  /\ stats' = NoStatistics
  /\ UNCHANGED <<vulnerability_snapshots, cve_device_snapshots, txnSnapshots,
                 txnPairs, auto_increment, faults>>

\* Lines 529-542: calculate_snapshot_statistics reads the live table; a
\* missing table or a fault is an Error.
RS_Statistics ==
  /\ rpc = "statistics"
  /\ \E f \in FaultChoices :
       /\ faults' = Spend(f)
       /\ IF f \/ ~tables[TABLE_VULNERABILITIES].exists
          THEN /\ RS_Fail("statistics")
               /\ UNCHANGED stats
          ELSE /\ \E fetched \in FetchOrders(status_results(tables[TABLE_VULNERABILITIES].rows)) :
                    stats' = calculate_snapshot_statistics(
                               tables[TABLE_VULNERABILITIES].rows, fetched)
               /\ rpc' = "insert_snapshot"
               /\ UNCHANGED rfail
  /\ UNCHANGED <<vulnerability_snapshots, cve_device_snapshots, txnSnapshots,
                 txnPairs, auto_increment, snapshot_id, batch_data,
                 batchesDone, rresult, snapshotCalls>>

\* Lines 544-557: INSERT INTO vulnerability_snapshots inside the open
\* transaction; lastrowid is the id the table handed out.
RS_InsertSnapshot ==
  /\ rpc = "insert_snapshot"
  /\ \E f \in FaultChoices :
       /\ faults' = Spend(f)
       /\ IF f
          THEN /\ RS_Fail("insert_snapshot")
               /\ UNCHANGED <<txnSnapshots, snapshot_id, auto_increment>>
          ELSE /\ txnSnapshots' = txnSnapshots \cup {auto_increment}
               /\ snapshot_id' = auto_increment
               /\ auto_increment' = auto_increment + 1
               /\ rpc' = "select_pairs"
               /\ UNCHANGED rfail
  /\ UNCHANGED <<vulnerability_snapshots, cve_device_snapshots, txnPairs,
                 batch_data, batchesDone, rresult, snapshotCalls, stats>>

\* Lines 563-606: the pair query and the tuples built from its records.
RS_SelectPairs ==
  /\ rpc = "select_pairs"
  /\ \E f \in FaultChoices :
       /\ faults' = Spend(f)
       /\ IF f
          THEN /\ RS_Fail("select_pairs")
               /\ UNCHANGED batch_data
          ELSE /\ batch_data' =
                    {<<snapshot_id, p[1], p[2],
                       GroupStatus(tables[TABLE_VULNERABILITIES].rows, p),
                         GroupSeverity(tables[TABLE_VULNERABILITIES].rows, p),
                         GroupLastSeen(tables[TABLE_VULNERABILITIES].rows, p)>> :
                       p \in cve_device_records(tables[TABLE_VULNERABILITIES].rows)}
               /\ rpc' = "insert_pairs"
               /\ UNCHANGED rfail
  /\ UNCHANGED <<vulnerability_snapshots, cve_device_snapshots, txnSnapshots,
                 txnPairs, auto_increment, snapshot_id, batchesDone, rresult,
                 snapshotCalls, stats>>

\* The tuples of batch_data no executemany has written yet.
Remaining == batch_data \ txnPairs

\* Lines 609-612: one executemany of INSERT IGNORE for the next batch_size
\* tuples (the query fixes no order).  A failing statement may have written
\* part of its rows.
RS_InsertBatch ==
  /\ rpc = "insert_pairs"
  /\ Remaining # {}
  /\ \E b \in SUBSET Remaining :
       /\ Cardinality(b) = Min(BatchSize, Cardinality(Remaining))
       /\ \E f \in FaultChoices :
            /\ faults' = Spend(f)
            /\ IF f
               THEN /\ \E part \in SUBSET b : txnPairs' = txnPairs \cup part
                    /\ RS_Fail("insert_pairs")
                    /\ UNCHANGED batchesDone
               ELSE /\ txnPairs' = txnPairs \cup b
                    /\ batchesDone' = batchesDone + 1
                    /\ UNCHANGED <<rpc, rfail>>
  /\ UNCHANGED <<vulnerability_snapshots, cve_device_snapshots, txnSnapshots,
                 auto_increment, snapshot_id, batch_data, rresult,
                 snapshotCalls, stats>>

\* Lines 614-618: connection.commit() makes the rows of the transaction
\* durable together; the id is returned.
RS_Commit ==
  /\ rpc = "insert_pairs"
  /\ Remaining = {}
  /\ \E f \in FaultChoices :
       /\ faults' = Spend(f)
       /\ IF f
          THEN /\ RS_Fail("commit")
               /\ UNCHANGED <<vulnerability_snapshots, cve_device_snapshots,
                              txnSnapshots, txnPairs, rresult>>
          ELSE /\ vulnerability_snapshots' = vulnerability_snapshots \cup txnSnapshots
               /\ cve_device_snapshots' = cve_device_snapshots \cup txnPairs
               /\ txnSnapshots' = {}
               /\ txnPairs' = {}
               /\ rresult' = Returned(snapshot_id)
               /\ rpc' = "idle"
               /\ UNCHANGED rfail
  /\ UNCHANGED <<auto_increment, snapshot_id, batch_data, batchesDone,
                 snapshotCalls, stats>>

\* Lines 620-629: except: connection.rollback(); return None.
RS_Handler ==
  /\ rpc = "handler"
  /\ txnSnapshots' = Rollback(txnSnapshots)
  /\ txnPairs' = Rollback(txnPairs)
  /\ rresult' = None
  /\ rpc' = "idle"
  /\ UNCHANGED <<vulnerability_snapshots, cve_device_snapshots,
                 auto_increment, snapshot_id, batch_data, batchesDone, rfail,
                 snapshotCalls, stats, faults>>

RNext ==
  \/ RS_Call
  \/ RS_Statistics
  \/ RS_InsertSnapshot
  \/ RS_SelectPairs
  \/ RS_InsertBatch
  \/ RS_Commit
  \/ RS_Handler

\* ---------------------------------------------------- trend_service
SUPPORTED_PERIODS == <<"week", "month", "year">>
PeriodTypes == {SUPPORTED_PERIODS[i] : i \in DOMAIN SUPPORTED_PERIODS}
DaysPerMonth == DaysPerWeek + 1
DaysPerYear == 2 * DaysPerMonth

\* critical_count, high_count and medium_count of a snapshot row.
ZeroCounts == [critical |-> 0, high |-> 0, medium |-> 0]
\* The counts of the snapshot row with a given id: every snapshot differs
\* from the others.
SnapshotCounts(id) == [critical |-> 2 + 3 * id, high |-> 2 * (id % 2), medium |-> id]
\* _normalize_periods, lines 373-380: the supported types that were
\* requested, in the order of SUPPORTED_PERIODS; all when none was.
RECURSIVE FilterSeq(_, _)
FilterSeq(q, S) ==
  IF q = <<>> THEN <<>>
  ELSE IF Head(q) \in S THEN <<Head(q)>> \o FilterSeq(Tail(q), S)
       ELSE FilterSeq(Tail(q), S)
_normalize_periods(period_types) ==
  IF period_types = {} THEN SUPPORTED_PERIODS
  ELSE FilterSeq(SUPPORTED_PERIODS, period_types)

\* _calculate_period_bounds, lines 211-230: the natural period holding the
\* anchor date.
PeriodLength(period_type) ==
  CASE period_type = "week" -> DaysPerWeek
    [] period_type = "month" -> DaysPerMonth
    [] period_type = "year" -> DaysPerYear
_calculate_period_bounds(period_type, anchor_date) ==
  LET n == PeriodLength(period_type)
      start == anchor_date - (anchor_date % n)
  IN  [period_type |-> period_type,
       start |-> start,
       end |-> start + n - 1,
       label |-> <<period_type, start \div n>>]

\* _load_daily_series, lines 162-200: the rows in the order of
\* snapshot_time, per day the row with the latest time, the days
\* ascending.  snapshot_time is the clock at the time of the insert
\* (repository.py line 525), so it grows with the id.
LatestOfDay(history, d) ==
  CHOOSE x \in {y \in history : y.day = d} :
    \A o \in {y \in history : y.day = d} : o.id <= x.id
_load_daily_series(history) ==
  LET days == SortedSeq({y.day : y \in history})
  IN  [i \in DOMAIN days |->
         [date_value |-> days[i],
          snapshot_id |-> LatestOfDay(history, days[i]).id,
          counts |-> LatestOfDay(history, days[i]).counts]]

\* The unique key uk_period_type_start of a period or of a stored row.
PeriodKey(b) == <<b.period_type, IF "start" \in DOMAIN b THEN b.start ELSE b.period_start>>

\* No snapshot: None.
NoSnapshot == [date_value |-> 0, snapshot_id |-> 0, counts |-> ZeroCounts]

\* A previous snapshot taken from the first day of the series.
FindPrevious_First(series, target_day) ==
  IF Len(series) = 0 \/ series[1].date_value > target_day THEN NoSnapshot
  ELSE series[1]

\* _find_previous_snapshot, lines 289-300: bisect_right over the ordered
\* dates; the entry before the insertion point, None at the front.
_find_previous_snapshot(series, target_day) ==
  LET at == Cardinality({i \in DOMAIN series : series[i].date_value <= target_day})
  IN  IF Len(series) = 0 \/ at = 0 THEN NoSnapshot ELSE series[at]

\* Lines 250-283: the point of one day and the snapshot it comes from.
DaySnapshot(series, current_day) ==
  LET own == {i \in DOMAIN series : series[i].date_value = current_day}
  IN  IF own # {} THEN [snapshot |-> series[CHOOSE i \in own : TRUE], is_carry |-> FALSE]
      ELSE [snapshot |-> _find_previous_snapshot(series, current_day), is_carry |-> TRUE]
DayPoint(series, current_day) ==
  [date |-> current_day,
   counts |-> DaySnapshot(series, current_day).snapshot.counts,
   carry |-> DaySnapshot(series, current_day).is_carry]

\* _build_period_points, lines 233-286.
_build_period_points(bounds, series) ==
  LET n == bounds.end - bounds.start + 1
      points == [o \in 1..n |-> DayPoint(series, bounds.start + o - 1)]
      ids == {DaySnapshot(series, bounds.start + o - 1).snapshot.snapshot_id : o \in 1..n} \ {0}
  IN  [points |-> points,
       last_counts |-> IF n = 0 THEN ZeroCounts ELSE points[n].counts,
       source_ids |-> SortedSeq(ids),
       carry_flag |-> \E o \in 1..n : points[o].carry]

\* The row refresh_trend_periods computes for a period, lines 64-83.
PeriodRow(period_type, anchor_date, series) ==
  LET bounds == _calculate_period_bounds(period_type, anchor_date)
      built == _build_period_points(bounds, series)
  IN  [period_type |-> period_type,
       period_label |-> bounds.label,
       period_start |-> bounds.start,
       period_end |-> bounds.end,
       active |-> built.last_counts,
       data_points |-> built.points,
       source_snapshot_ids |-> built.source_ids,
       is_carry_forward |-> built.carry_flag]

\* An update clause that adds the new counts to the stored ones.
OnDuplicateKeyUpdate_Adds(old, new) ==
  [new EXCEPT !.active =
     [critical |-> old.active.critical + new.active.critical,
      high |-> old.active.high + new.active.high,
      medium |-> old.active.medium + new.active.medium]]

\* Lines 326-335: ON DUPLICATE KEY UPDATE sets every column but the key
\* from VALUES().
OnDuplicateKeyUpdate(old, new) ==
  [new EXCEPT !.period_type = old.period_type, !.period_start = old.period_start]

\* A plain INSERT, without the unique key.
InsertPeriodRow(table, row) == Append(table, row)

\* _upsert_period_row, lines 303-351, against the unique key
\* uk_period_type_start (database.py line 380): the table is the sequence
\* of its rows.
_upsert_period_row(table, row) ==
  LET dup == {i \in DOMAIN table : /\ table[i].period_type = row.period_type
                                   /\ table[i].period_start = row.period_start}
  IN  IF dup = {} THEN Append(table, row)
      ELSE [i \in DOMAIN table |->
              IF i \in dup THEN OnDuplicateKeyUpdate(table[i], row) ELSE table[i]]

TInit ==
  /\ today = 0
  /\ snapshot_history = {}
  /\ trend_periods = <<>>
  /\ trendWork = <<>>
  /\ trpc = "idle"
  /\ target_periods = <<>>
  /\ requested = [period_types |-> {}, anchor_date |-> 0]
  /\ daily_series = <<>>
  /\ tfail = ""
  /\ tresult = "none"
  /\ refreshCalls = 0
  /\ materialized = {}
  /\ settled = FALSE
  /\ repeated = FALSE

\* Midnight (between two calls of the rollup; a call reads the clock once,
\* line 47).
DayPasses ==
  /\ trpc = "idle"
  /\ fpc = "idle"
  /\ today < MaxDay
  /\ today' = today + 1
  /\ settled' = FALSE
  /\ UNCHANGED <<snapshot_history, trend_periods, trendWork, trpc,
                 target_periods, requested, daily_series, tfail, tresult,
                 refreshCalls, materialized, repeated, faults>>

\* record_snapshot has committed another snapshot row (between two calls
\* of the rollup; a row committed during a call is read by the next one).
SnapshotRecorded ==
  /\ trpc = "idle"
  /\ fpc = "idle"
  /\ Cardinality(snapshot_history) < MaxHistory
  /\ snapshot_history' = snapshot_history \cup
       {[id |-> Cardinality(snapshot_history) + 1,
         day |-> today,
         counts |-> SnapshotCounts(Cardinality(snapshot_history) + 1)]}
  /\ settled' = FALSE
  /\ UNCHANGED <<today, trend_periods, trendWork, trpc, target_periods,
                 requested, daily_series, tfail, tresult, refreshCalls,
                 materialized, repeated, faults>>

\* The call is over: its locals are gone.
TR_Return(result) ==
  /\ trpc' = "idle"
  /\ tresult' = result
  /\ target_periods' = <<>>
  /\ daily_series' = <<>>

\* The call leaves with an exception: the finally clause closes the
\* connection, lines 88-90, and its uncommitted rows are gone.
TR_Raise(step) ==
  /\ TR_Return("raised")
  /\ tfail' = step
  /\ trendWork' = trend_periods

\* refresh_trend_periods, lines 44-53: the arguments and the connection.
\* The one caller, fetch_trend_payload at line 111, passes no
\* reference_date, so the anchor date is the date of the clock, line 47.
TR_Enter(types) ==
  /\ refreshCalls' = refreshCalls + 1
  /\ requested' = [period_types |-> types, anchor_date |-> today]
  /\ target_periods' = _normalize_periods(types)
  /\ repeated' = (settled /\ requested = [period_types |-> types, anchor_date |-> today])
  /\ settled' = FALSE
  /\ trendWork' = trend_periods
  /\ daily_series' = <<>>
  /\ tfail' = ""
  /\ tresult' = "none"
  /\ trpc' = "load"
  /\ UNCHANGED <<today, snapshot_history, trend_periods, materialized>>

TR_Call ==
  /\ trpc = "idle"
  /\ fpc = "idle"
  /\ refreshCalls < MaxRefresh
  /\ \E types \in SUBSET PeriodTypes : TR_Enter(types)
  /\ UNCHANGED faults

\* Lines 54-60: the daily series; an empty one ends the call with 0.
TR_Load ==
  /\ trpc = "load"
  /\ \E f \in FaultChoices :
       /\ faults' = Spend(f)
       /\ IF f
          THEN TR_Raise("load")
          ELSE /\ IF Len(_load_daily_series(snapshot_history)) = 0
                  THEN TR_Return("0")
                  ELSE /\ trpc' = "periods"
                       /\ daily_series' = _load_daily_series(snapshot_history)
                       /\ UNCHANGED <<tresult, target_periods>>
               /\ UNCHANGED <<tfail, trendWork>>
  /\ UNCHANGED <<today, snapshot_history, trend_periods, requested,
                 refreshCalls, materialized, settled, repeated>>

\* Lines 63-84: one turn of the loop over the target periods; an Error of
\* the upsert leaves the loop and the function.
TR_Period ==
  /\ trpc = "periods"
  /\ target_periods # <<>>
  /\ \E f \in FaultChoices :
       /\ faults' = Spend(f)
       /\ IF f
          THEN TR_Raise(Head(target_periods))
          ELSE /\ trendWork' =
                    _upsert_period_row(trendWork,
                       PeriodRow(Head(target_periods), requested.anchor_date, daily_series))
               /\ target_periods' = Tail(target_periods)
               /\ UNCHANGED <<trpc, tfail, tresult, daily_series>>
  /\ UNCHANGED <<today, snapshot_history, trend_periods, requested,
                 refreshCalls, materialized, settled, repeated>>

\* Lines 86-87: connection.commit(); return updated.
TR_Commit ==
  /\ trpc = "periods"
  /\ target_periods = <<>>
  /\ \E f \in FaultChoices :
       /\ faults' = Spend(f)
       /\ IF f
          THEN /\ TR_Raise("commit")
               /\ UNCHANGED <<trend_periods, materialized, settled>>
          ELSE /\ trend_periods' = trendWork
               /\ materialized' = materialized \cup
                    {PeriodKey(_calculate_period_bounds(t, requested.anchor_date)) :
                       t \in {_normalize_periods(requested.period_types)[i] :
                                i \in DOMAIN _normalize_periods(requested.period_types)}}
               /\ settled' = TRUE
               /\ TR_Return("updated")
               /\ UNCHANGED <<tfail, trendWork>>
  /\ UNCHANGED <<today, snapshot_history, requested, refreshCalls, repeated>>

TNext ==
  \/ DayPasses
  \/ SnapshotRecorded
  \/ TR_Call
  \/ TR_Load
  \/ TR_Period
  \/ TR_Commit

\* ------------------------------------------------- fetch_trend_payload
\* src/app/services/trend_service.py, lines 93-159 and 354-370, and
\* src/app/utils/cache.py.  A mapping period type -> data points is the set
\* of its <<period type, points>> pairs; the empty set stands for None.

\* The period_types arguments of the route, dashboard_trends.py line 22:
\* None (every supported period) or a list of period types.
FetchRequests == {{}, {"week"}}

\* _build_cache_key, lines 365-370, of normalized target periods: the
\* prefix and the joined names, one key per sequence of names.
_build_cache_key(period_types) == _normalize_periods({period_types[i] : i \in DOMAIN period_types})
CacheKeys == {_build_cache_key(_normalize_periods(t)) : t \in FetchRequests}

\* cache.py, cache_get, lines 37-48: None without a client, else the
\* stored value.
cache_get_IgnoresBackend(entries, key, backend) == entries[key]
cache_get(entries, key, backend) == IF ~backend THEN {} ELSE entries[key]

\* cache.py, cache_set, lines 51-59: nothing without a client, else setex.
cache_set(entries, key, value, backend) ==
  IF ~backend THEN entries ELSE [entries EXCEPT ![key] = value]

\* get_trend_periods, lines 139-156: the rows of the requested types,
\* ordered by period_type only; result[period_type] = points is assigned
\* row after row, so of several rows of a type the one fetched last
\* stays, and the order within a type is the server's choice.
\* _ensure_all_periods, lines 354-362: a type without a row gets [].
TypeRows(table, t) == {i \in DOMAIN table : table[i].period_type = t}
Readings(table, target) ==
  LET T == {target[i] : i \in DOMAIN target}
      Picks == {pick \in [T -> (DOMAIN table) \cup {0}] :
                  \A t \in T : IF TypeRows(table, t) = {} THEN pick[t] = 0
                               ELSE pick[t] \in TypeRows(table, t)}
  IN  {{<<t, IF pick[t] = 0 THEN <<>> ELSE table[pick[t]].data_points>> : t \in T} :
         pick \in Picks}

NoFetch == [period_types |-> <<>>, backend |-> FALSE, cached |-> {}, first |-> {}]

FInit ==
  /\ cache = [k \in CacheKeys |-> {}]
  /\ fpc = "idle"
  /\ fetch = NoFetch
  /\ payload = {}
  /\ fresult = "none"

\* Lines 116-118: cache_set and return normalized.
F_Return(key, normalized, backend) ==
  /\ cache' = cache_set(cache, key, normalized, backend)
  /\ payload' = normalized
  /\ fresult' = "returned"
  /\ fpc' = "idle"

\* Lines 99-103: the target periods, the cache key and cached =
\* cache_get(cache_key), with the backend present or absent.
F_Call ==
  /\ fpc = "idle"
  /\ trpc = "idle"
  /\ refreshCalls < MaxRefresh
  /\ \E types \in FetchRequests, backend \in BOOLEAN :
       LET target == _normalize_periods(types)
       IN  fetch' = [period_types |-> target, backend |-> backend,
                     cached |-> cache_get(cache, _build_cache_key(target), backend),
                     first |-> {}]
  /\ fpc' = "lookup"
  /\ fresult' = "none"
  /\ UNCHANGED <<cache, payload, tvars, faults>>

\* Lines 104-111: a cached mapping is returned; else the first read and
\* the decision to refresh.  A failing database connection raises out of
\* the call, line 135.
F_Read ==
  /\ fpc = "lookup"
  /\ LET target == fetch.period_types
         key == _build_cache_key(target)
     IN  IF fetch.cached # {}
         THEN /\ payload' = fetch.cached
              /\ fresult' = "hit"
              /\ fpc' = "idle"
              /\ UNCHANGED <<cache, fetch, tvars, faults>>
         ELSE \E f \in FaultChoices :
                /\ faults' = Spend(f)
                /\ IF f
                   THEN /\ fresult' = "raised"
                        /\ fpc' = "idle"
                        /\ UNCHANGED <<cache, fetch, payload, tvars>>
                   ELSE \E normalized \in Readings(trend_periods, target) :
                          /\ fetch' = [fetch EXCEPT !.first = normalized]
                          /\ IF \E x \in normalized : Len(x[2]) = 0
                             THEN /\ TR_Enter({target[i] : i \in DOMAIN target})
                                  /\ fpc' = "refresh"
                                  /\ UNCHANGED <<cache, payload, fresult>>
                             ELSE /\ F_Return(key, normalized, fetch.backend)
                                  /\ UNCHANGED tvars

\* Lines 111-118, after refresh_trend_periods has returned or raised: a
\* count of 0 keeps the first read, any other count reads again.
F_AfterRefresh ==
  /\ fpc = "refresh"
  /\ trpc = "idle"
  /\ LET key == _build_cache_key(fetch.period_types)
     IN  IF tresult = "raised"
         THEN /\ fresult' = "raised"
              /\ fpc' = "idle"
              /\ UNCHANGED <<cache, payload>>
         ELSE IF tresult = "0"
         THEN F_Return(key, fetch.first, fetch.backend)
         ELSE \E normalized \in Readings(trend_periods, fetch.period_types) :
                F_Return(key, normalized, fetch.backend)
  /\ UNCHANGED <<fetch, tvars, faults>>

\* The TTL of an entry, TREND_CACHE_TTL at line 117, runs out.
CacheExpires ==
  /\ fpc = "idle"
  /\ \E key \in CacheKeys :
       /\ cache[key] # {}
       /\ cache' = [cache EXCEPT ![key] = {}]
  /\ UNCHANGED <<fpc, fetch, payload, fresult, tvars, faults>>

FNext ==
  \/ F_Call
  \/ F_Read
  \/ F_AfterRefresh
  \/ CacheExpires
  \/ DayPasses /\ UNCHANGED fvars
  \/ SnapshotRecorded /\ UNCHANGED fvars
  \/ TR_Load /\ UNCHANGED fvars
  \/ TR_Period /\ UNCHANGED fvars
  \/ TR_Commit /\ UNCHANGED fvars

\* ---------------------------------------------------- detection flags
\* src/app/services/threat_source_sync_service.py and
\* src/app/services/recordfuture_service.py: the operations that set the
\* columns metasploit_detected, nuclei_detected and recordfuture_detected
\* of the live table (database.py lines 287-289, DEFAULT FALSE).  The
\* UPDATEs select by cve_id, so a column is the set of the flagged cve_ids.
DetectionColumns == {"metasploit_detected", "nuclei_detected", "recordfuture_detected"}
Cves == 1..MaxCve
LiveCves ==
  {cve_id(r) : r \in {q \in tables[TABLE_VULNERABILITIES].rows : cve_id(q) # 0}}

DInit ==
  /\ detection = [c \in DetectionColumns |-> {}]
  /\ recordfuture_indicators = {}

\* _sync_source, lines 218-237, for one feed, and the else branches of
\* sync_threat_sources, lines 261-262 and 272-273: _reset_detection_flag
\* sets the column FALSE in every row, _apply_detection_flag sets it TRUE
\* in the rows of the matched CVEs (those of the feed the live table holds).
SyncSourceFlags(metadata) == metadata \cap LiveCves

\* sync_threat_sources, lines 240-283, run by the sync source
\* threat_feeds: both feeds in one transaction.  TRUNCATE TABLE commits
\* what precedes it, so an Error in the second feed rolls back the second
\* column only; without the live table the first SELECT is an Error.
SyncThreatSources ==
  /\ \E metasploit_metadata \in SUBSET Cves, nuclei_metadata \in SUBSET Cves,
        f \in FaultChoices, failed \in {"first", "second"} :
       /\ faults' = Spend(f)
       /\ IF ~tables[TABLE_VULNERABILITIES].exists \/ (f /\ failed = "first")
          THEN UNCHANGED detection
          ELSE detection' =
                 [detection EXCEPT
                    !["metasploit_detected"] = SyncSourceFlags(metasploit_metadata),
                    !["nuclei_detected"] =
                       IF f THEN @ ELSE SyncSourceFlags(nuclei_metadata)]
  /\ UNCHANGED recordfuture_indicators

\* _apply_recordfuture_detection_flags, lines 31-57: UPDATE ... SET
\* recordfuture_detected = TRUE WHERE UPPER(cve_id) IN (...), commit; an
\* Error rolls back.
ApplyRecordfutureFlags(column, cves, ok) ==
  IF cves = {} \/ ~ok THEN column ELSE column \cup (cves \cap LiveCves)

\* save_indicators, lines 82-133, the route of threat_intelligence.py
\* line 40: the indicators are stored, then the flags of their CVEs set.
SaveIndicators ==
  /\ \E cves \in SUBSET Cves, f \in FaultChoices :
       /\ faults' = Spend(f)
       /\ recordfuture_indicators' = recordfuture_indicators \cup cves
       /\ detection' =
            [detection EXCEPT !["recordfuture_detected"] =
               ApplyRecordfutureFlags(@, cves,
                  tables[TABLE_VULNERABILITIES].exists /\ ~f)]

\* rebuild_detection_flags, lines 136-165, run by the sync source
\* recordfuture_flags: the flags are cleared and committed (lines 60-79),
\* then set again from the stored indicators.
RebuildDetectionFlags ==
  /\ tables[TABLE_VULNERABILITIES].exists
  /\ \E f \in FaultChoices :
       /\ faults' = Spend(f)
       /\ detection' =
            [detection EXCEPT !["recordfuture_detected"] =
               ApplyRecordfutureFlags({}, recordfuture_indicators, ~f)]
  /\ UNCHANGED recordfuture_indicators

DNext ==
  \/ SyncThreatSources
  \/ SaveIndicators
  \/ RebuildDetectionFlags

\* ------------------------------------------------------- specifications
Init == WInit /\ SInit /\ RInit /\ TInit /\ FInit /\ DInit
Next == WNext /\ UNCHANGED <<svars, rvars, tvars, fvars, dvars>>
Spec == Init /\ [][Next]_vars

\* The live table after some refresh, or not created yet.
SnapInit ==
  /\ WorkerIdle
  /\ \E live \in {Absent} \cup {[exists |-> TRUE, rows |-> R] : R \in SUBSET RowIds} :
       tables = [n \in TableNames |-> IF n = TABLE_VULNERABILITIES THEN live ELSE Absent]
  /\ SInit
  /\ RInit
  /\ TInit
  /\ FInit
  /\ DInit

SnapNext ==
  RNext /\ UNCHANGED <<tables, pending, pc, batch, idx, pre, failStep,
                       svOutcome, observed, cycZero, snapshotRan, saveCalls,
                       marker, snapshotCommitted, writerFailed, initialRead, earlier, cycleResult, svars, tvars, fvars, dvars>>
SnapSpec == SnapInit /\ [][SnapNext]_vars

TrendNext ==
  TNext /\ UNCHANGED <<tables, pending, pc, batch, idx, pre, failStep,
                       svOutcome, observed, cycZero, snapshotRan, saveCalls,
                       marker, snapshotCommitted, writerFailed, initialRead, earlier, cycleResult, svars, rvars, fvars, dvars>>
TrendSpec == Init /\ [][TrendNext]_vars

FetchNext ==
  FNext /\ UNCHANGED <<tables, pending, pc, batch, idx, pre, failStep,
                       svOutcome, observed, cycZero, snapshotRan, saveCalls,
                       marker, snapshotCommitted, writerFailed, initialRead, earlier, cycleResult, svars, rvars, dvars>>
FetchSpec == Init /\ [][FetchNext]_vars

FrameNext ==
  DNext /\ UNCHANGED <<tables, pending, pc, batch, idx, pre, failStep,
                       svOutcome, observed, cycZero, snapshotRan, saveCalls,
                       marker, snapshotCommitted, writerFailed, initialRead, earlier, cycleResult, svars, rvars,
                       tvars, fvars>>
FrameSpec == SnapInit /\ [][FrameNext]_vars

SyncNext == SNext /\ UNCHANGED <<wvars, rvars, tvars, fvars, dvars>>
SyncSpec == Init /\ [][SyncNext]_vars

\* A started thread keeps being scheduled until it ends.
SyncFairness == \A c \in Callers : WF_vars(JobStep(c) /\ UNCHANGED <<wvars, rvars, tvars, fvars, dvars>>)
SyncFairSpec == SyncSpec /\ SyncFairness

\* ===================================================== claims, under Spec
LiveTable == tables[TABLE_VULNERABILITIES]
PostRefresh(b) == [exists |-> TRUE, rows |-> ValidIds(b)]
Mixed(b) == valid_count(b) > 0 /\ valid_count(b) < Len(b)

\* C1: while save_vulnerabilities runs with a non-empty batch against an
\* existing live table, whatever a concurrent reader gets from the live
\* table is the complete pre-refresh row set or the complete post-refresh
\* row set; the table is never missing, empty or partly populated.
C1_ReaderSeesWholeSet ==
  (observed.seen /\ pre.exists /\ Len(batch) > 0) =>
     /\ observed.exists
     /\ observed.rows \in {pre.rows, ValidIds(batch)}

\* C2: for every non-empty batch, when save_vulnerabilities has returned
\* normally the live table holds as many rows as the batch has valid
\* records, whatever it held before.
C2_RowCountIsValidCount ==
  (pc = "sv_exit" /\ svOutcome = "returned") =>
     /\ LiveTable.exists
     /\ CountRows(tables) = valid_count(batch)

\* C3: a batch mixing valid records with records that lack an id does not
\* make save_vulnerabilities fail: without any database fault the call
\* returns normally and the live table holds the valid records.
C3_MixedBatchIsSaved ==
  (pc = "sv_exit" /\ Mixed(batch) /\ faults = 0) =>
     /\ svOutcome = "returned"
     /\ LiveTable = PostRefresh(batch)

\* C4: when save_vulnerabilities fails while inserting batches into the
\* staging table (after some batches, before the commit has succeeded),
\* the call raises and the live table still exists under its name with
\* exactly the rows it had before the call.
C4_InsertFaultKeepsLive ==
  (failStep \in {"insert", "commit"} /\ pre.exists) =>
     /\ LiveTable = pre
     /\ pc # "sv_handler" => svOutcome = "raised"
     /\ pc \in {"cycle_end", "idle"} => cycleResult = "error"

C4_Witness ==
  /\ pc = "sv_exit"
  /\ failStep = "insert"
  /\ idx > 0
  /\ faults > 0
  /\ svOutcome = "raised"
  /\ pre.exists /\ pre.rows # {}
  /\ LiveTable = pre

\* C5: when the table swap fails at any point of step 4, also after the
\* live table was renamed away and before the staging table took its
\* name, the previous dataset is still queryable under the live table
\* name once the call has raised.
C5_SwapFailureKeepsLive ==
  (svOutcome = "raised" /\ failStep \in {"fk_off", "rename_temp"} /\ pre.exists) =>
     LiveTable = pre

\* C6: in a cycle whose fetched batch is non-empty, a row count of zero
\* read from the live table after the save makes the cycle raise; the
\* save is not called again and record_snapshot is not called.
C6_ZeroRowsIsFatal ==
  (cycZero /\ Len(batch) > 0) =>
     /\ ~snapshotRan
     /\ ~snapshotCommitted
     /\ saveCalls <= 1
     /\ pc \in {"sv_handler", "sv_exit", "cycle_end", "idle"}
     /\ pc = "sv_exit" => svOutcome = "raised"
     /\ pc \in {"cycle_end", "idle"} => cycleResult = "error"

C6_Witness ==
  /\ cycZero
  /\ Len(batch) > 0
  /\ saveCalls = 1
  /\ svOutcome = "returned"
  /\ CountRows(tables) = 0
  /\ pc = "cycle_end"
  /\ cycleResult = "error"
  /\ ~snapshotRan


\* ================================================= claims, under SyncSpec
JobsInProgress == {c \in Callers : jpc[c] # "none"}

\* C7: under every interleaving of trigger_sync calls and sync jobs at most
\* one _run_sync_job is in progress at any instant.
C7_SingleFlight == Cardinality(JobsInProgress) <= 1

\* The cycle of another caller's call is in progress: that call has
\* returned 'Sync started' (the return follows the thread's start).
CycleOfEarlierCall(c) == \E d \in Callers \ {c} : jpc[d] # "none"

\* C8: a trigger_sync call made after an earlier call has returned 'Sync
\* started' and before that cycle has finished is rejected and changes
\* neither the selected sources nor the progress.
C8_SecondCallRejected ==
  [][\A c \in Callers :
       (T_Check(c) /\ CycleOfEarlierCall(c)) =>
          /\ tpc'[c] = "idle"
          /\ UNCHANGED <<sync_progress, sync_in_progress, jsel>>]_vars

\* C9: every cycle that trigger_sync starts eventually clears the guard,
\* whatever its sources did, and a call that then reads the cleared guard
\* is accepted.
C9_GuardReleased ==
  /\ \A c \in Callers :
       (jpc[c] # "none") ~> (jpc[c] = "none" /\ ~sync_in_progress)
  /\ [][\A c \in Callers :
          (T_Check(c) /\ ~sync_in_progress) => tpc'[c] = "resolve"]_vars

C9_Witness ==
  /\ sync_progress.stage = "error"
  /\ JobsInProgress = {}
  /\ ~sync_in_progress
  /\ \E c \in Callers : tpc[c] = "resolve"

\* ================================================= claims, under SnapSpec
PairRowsOf(sid) == {p \in cve_device_snapshots : p[1] = sid}
AllPairRowsOf(sid) ==
  {<<sid, p[1], p[2], GroupStatus(tables[TABLE_VULNERABILITIES].rows, p),
                         GroupSeverity(tables[TABLE_VULNERABILITIES].rows, p),
                         GroupLastSeen(tables[TABLE_VULNERABILITIES].rows, p)>> :
     p \in cve_device_records(tables[TABLE_VULNERABILITIES].rows)}

LiveRows == tables[TABLE_VULNERABILITIES].rows
LatestRow(g) == CHOOSE r \in g : \A q \in g : last_seen_timestamp(q) <= last_seen_timestamp(r)
PairRowsFor(sid, p) == {x \in PairRowsOf(sid) : x[2] = p[1] /\ x[3] = p[2]}

\* C11: when the live table holds two records of one (CVE, device) pair
\* with differing last-seen timestamps, the snapshot record_snapshot has
\* committed holds exactly one pair row for that pair, and its status is
\* the status of the record seen last.
C11_LatestStatusWins ==
  (rpc = "idle" /\ rresult.kind = "id") =>
     \A p \in cve_device_records(LiveRows) :
        Cardinality(GroupRows(LiveRows, p)) >= 2 =>
           /\ Cardinality(PairRowsFor(snapshot_id, p)) = 1
           /\ \A x \in PairRowsFor(snapshot_id, p) :
                x[4] = status(LatestRow(GroupRows(LiveRows, p)))

SeveritySum(st) ==
  st.severity_counts["critical"] + st.severity_counts["high"]
    + st.severity_counts["medium"] + st.severity_counts["low"]

\* C12: in every snapshot record_snapshot writes, the four severity
\* counts add up to at most total_vulnerabilities, the number of distinct
\* CVE identifiers, whatever the live table holds.
C12_SeveritySumBounded ==
  (rpc = "idle" /\ rresult.kind = "id") =>
     SeveritySum(stats) <= stats.total_vulnerabilities

\* The period types of the current or last call, and its stored rows.
RequestedTypes ==
  {_normalize_periods(requested.period_types)[i] :
     i \in DOMAIN _normalize_periods(requested.period_types)}
RowsOf(table, k) == {i \in DOMAIN table : PeriodKey(table[i]) = k}
RequestedKey(t) == PeriodKey(_calculate_period_bounds(t, requested.anchor_date))

\* C13: a call of refresh_trend_periods that repeats the call before it
\* (same period types, same anchor date, no snapshot recorded in between)
\* commits a table equal to the one it found: every stored row keeps its
\* label, start, end, counts, data points, carry flag and source ids.
C13_RefreshIdempotent ==
  [][(repeated /\ trpc = "periods" /\ trpc' = "idle" /\ tresult' = "updated")
       => trend_periods' = trend_periods]_vars

C13_Witness ==
  /\ repeated
  /\ trpc = "idle"
  /\ tresult = "updated"
  /\ settled
  /\ Len(trend_periods) >= 2
  /\ \E i \in DOMAIN trend_periods : trend_periods[i].active # ZeroCounts

\* C14: the trend table and the rows of a call in progress hold exactly
\* one row for each (period type, period start) ever committed, and no
\* row besides those and the ones the call has written.
C14_OneRowPerPeriod ==
  /\ \A k \in materialized : Cardinality(RowsOf(trend_periods, k)) = 1
  /\ \A i \in DOMAIN trend_periods : PeriodKey(trend_periods[i]) \in materialized
  /\ \A k \in materialized : Cardinality(RowsOf(trendWork, k)) = 1
  /\ \A i \in DOMAIN trendWork :
        Cardinality(RowsOf(trendWork, PeriodKey(trendWork[i]))) = 1

C14_Witness ==
  /\ trpc = "idle"
  /\ tresult = "updated"
  /\ refreshCalls = 2
  /\ ~repeated
  /\ Cardinality(materialized) >= 4
  /\ \E t \in RequestedTypes :
        /\ requested.anchor_date > 0
        /\ RequestedKey(t)[2] = 0

\* The point the specification describes for a day: the counts of the
\* day's latest snapshot, or else those of the latest snapshot of the most
\* recent earlier day with carry, or else zero counts with carry.
SnapshotsOn(d) == {y \in snapshot_history : y.day = d}
LastSnapshotUpTo(d) ==
  CHOOSE x \in {y \in snapshot_history : y.day <= d} :
    \A o \in {y \in snapshot_history : y.day <= d} :
       o.day < x.day \/ (o.day = x.day /\ o.id <= x.id)
ExpectedPoint(d) ==
  IF SnapshotsOn(d) # {}
  THEN [date |-> d, counts |-> LastSnapshotUpTo(d).counts, carry |-> FALSE]
  ELSE IF {y \in snapshot_history : y.day <= d} # {}
       THEN [date |-> d, counts |-> LastSnapshotUpTo(d).counts, carry |-> TRUE]
       ELSE [date |-> d, counts |-> ZeroCounts, carry |-> TRUE]

\* The rows the call in progress has written so far.
WrittenTypes ==
  IF trpc = "periods"
  THEN RequestedTypes \ {target_periods[i] : i \in DOMAIN target_periods}
  ELSE {}

\* C15: the points of every row a call has written are one per day of
\* [start, end], in date order, each the point the specification
\* describes for its day.
C15_PointsPerDay ==
  \A t \in WrittenTypes :
     \A i \in RowsOf(trendWork, RequestedKey(t)) :
        LET row == trendWork[i]
        IN  /\ Len(row.data_points) = row.period_end - row.period_start + 1
            /\ \A o \in DOMAIN row.data_points :
                  row.data_points[o] = ExpectedPoint(row.period_start + o - 1)

C15_Witness ==
  \E t \in WrittenTypes :
     \E i \in RowsOf(trendWork, RequestedKey(t)) :
        LET pts == trendWork[i].data_points
        IN  /\ \E o \in DOMAIN pts : pts[o].carry /\ pts[o].counts = ZeroCounts
            /\ \E o \in DOMAIN pts : ~pts[o].carry
            /\ \E o, q \in DOMAIN pts :
                  /\ pts[o].carry /\ pts[q].carry
                  /\ pts[o].counts # ZeroCounts /\ pts[q].counts # ZeroCounts
            /\ Cardinality(snapshot_history) >= 2
            /\ \E x, y \in snapshot_history : x.day # y.day /\ x.counts # y.counts

\* C16: a call of refresh_trend_periods that returns with an empty
\* snapshot history leaves, for each requested period type, a stored row
\* whose every day has a point with zero counts and carry = true.
C16_EmptyHistoryZeroPeriods ==
  (trpc = "idle" /\ tresult \in {"0", "updated"} /\ snapshot_history = {}) =>
     \A t \in RequestedTypes :
        \E i \in RowsOf(trend_periods, RequestedKey(t)) :
           LET row == trend_periods[i]
           IN  /\ Len(row.data_points) = row.period_end - row.period_start + 1
               /\ \A o \in DOMAIN row.data_points :
                     /\ row.data_points[o].counts = ZeroCounts
                     /\ row.data_points[o].carry

\* C20: when a call for several period types fails at one of them, the
\* rows of the other requested period types are stored as computed from
\* the snapshot history.
C20_OtherPeriodsPersisted ==
  (trpc = "idle" /\ tresult = "raised" /\ tfail \in PeriodTypes
     /\ Cardinality(RequestedTypes) >= 2) =>
     \A t \in RequestedTypes \ {tfail} :
        \E i \in RowsOf(trend_periods, RequestedKey(t)) :
           trend_periods[i] =
             PeriodRow(t, requested.anchor_date, _load_daily_series(snapshot_history))

\* The Refresh Writer of the cycle has succeeded: save_vulnerabilities has
\* returned, the caller's count was not zero and the sync time is recorded.
WriterSucceeded ==
  saveCalls = 1 /\ svOutcome = "returned" /\ marker # NoMarker

\* C17: a cycle in which the Refresh Writer succeeded and no database
\* fault occurred ends only after record_snapshot has been executed and
\* has committed a snapshot, and is reported as successful.
C17_SnapshotFollowsWriter ==
  (pc = "cycle_end" /\ WriterSucceeded /\ faults = 0) =>
     (snapshotRan /\ snapshotCommitted /\ cycleResult = "ok")

\* C18: in a cycle in which save_vulnerabilities or its verification has
\* raised, record_snapshot has not been executed and no snapshot has been
\* committed, at any point up to the end of the cycle.
C18_NoSnapshotAfterWriterFailure ==
  writerFailed => (~snapshotRan /\ ~snapshotCommitted)

C18_Witness ==
  /\ pc = "cycle_end"
  /\ writerFailed
  /\ saveCalls = 1
  /\ svOutcome = "raised"
  /\ cycleResult = "error"
  /\ ~snapshotRan

\* C19: no call of record_snapshot has read the live table while a run of
\* save_vulnerabilities was between its start and its final commit,
\* whether it came from the sync pipeline or from create-initial-snapshot.
C19_SnapshotNeverInterleaved ==
  /\ initialRead # "interleaved"
  /\ snapshotRan => ~SaveRunning

\* The steps of save_vulnerabilities before the rename point.
BeforeRename == {"create_temp", "prepare", "insert", "commit", "fk_off"}

\* C23: a run of save_vulnerabilities that has stopped at a step before
\* the rename point has left no staging table when it has raised.
C23_NoOrphanStagingTable ==
  (pc = "sv_exit" /\ svOutcome = "raised" /\ failStep \in BeforeRename) =>
     ~tables[temp_table_name].exists

\* C28: a run of save_vulnerabilities that comes after a run that raised,
\* gets a non-empty batch of valid records with distinct ids, meets no
\* fault and no create-initial-snapshot request, returns and leaves the
\* live table holding exactly the rows of its batch.
C28_RunAfterFailureSucceeds ==
  (pc = "sv_exit" /\ earlier.failed /\ faults = earlier.faults
     /\ initialRead # "interleaved"
     /\ valid_count(batch) = Len(batch)
     /\ Cardinality(ValidIds(batch)) = Len(batch)) =>
     /\ svOutcome = "returned"
     /\ LiveTable = PostRefresh(batch)

\* C24: the marker a cycle has just appended to sync_state carries the
\* number of rows the live table holds.
C24_MarkerCountsLiveRows ==
  (pc = "catalog" /\ marker # NoMarker) => marker = CountRows(tables)

\* C30: whenever the in-memory progress shows is_complete = true and
\* is_syncing = false, the guard sync_in_progress is false.
C30_ProgressAgreesWithGuard ==
  (sync_progress.is_complete /\ ~sync_progress.is_syncing) => ~sync_in_progress

\* The per-source states of the progress, and the terminal progress the
\* specification describes for them.
SourceStatuses == {sync_progress.sources[i].status : i \in DOMAIN sync_progress.sources}
FailedCycleEnd ==
  /\ sync_progress.stage = "error"
  /\ sync_progress.is_complete
  /\ ~sync_progress.is_syncing
  /\ \A i, j \in DOMAIN sync_progress.sources :
        (sync_progress.sources[i].status = "error" /\ i < j) =>
           sync_progress.sources[j].status = "pending"
SuccessfulCycleEnd ==
  /\ SourceStatuses = {"success"}
  /\ sync_progress.stage = "complete"
  /\ sync_progress.progress = 100
  /\ sync_progress.is_complete

\* C27: a job ends (its finally clause runs) with the terminal progress
\* of a failed cycle when one of its sources failed and with that of a
\* successful cycle otherwise, and changes no progress after it; the
\* progress value stays within 0..100 and decreases only when
\* trigger_sync starts a new cycle.
C27_ProgressOfACycle ==
  [][/\ \A c \in Callers :
          (jpc[c] = "finally" /\ jpc'[c] = "none") =>
             /\ IF "error" \in SourceStatuses THEN FailedCycleEnd
                ELSE SuccessfulCycleEnd
             /\ sync_progress' = sync_progress
     /\ sync_progress'.progress \in 0..100
     /\ (sync_progress'.progress < sync_progress.progress) =>
           \E c \in Callers : tpc[c] = "init_progress" /\ tpc'[c] = "start_thread"]_vars
\* The order of the severities, Critical > High > Medium > Low, over the
\* transformed texts.
SeverityOrder == <<"4 - Low", "3 - Medium", "2 - High", "1 - Critical">>
SeverityLevel(t) == CHOOSE i \in 1..Len(SeverityOrder) : SeverityOrder[i] = t
TransformedForms == {SeverityOrder[i] : i \in DOMAIN SeverityOrder}
HighestSeverity(S) == CHOOSE t \in S : \A u \in S : SeverityLevel(u) <= SeverityLevel(t)

\* C25: for every (CVE, device) group whose severities are stored in the
\* transformed forms, the pair row record_snapshot has committed carries
\* the highest severity of the group in the order Critical > High >
\* Medium > Low and the latest last-seen timestamp of the group, and the
\* status 'Active' when every status of the group is empty.
C25_PairRowCarriesHighestSeverity ==
  (rpc = "idle" /\ rresult.kind = "id") =>
     \A p \in cve_device_records(LiveRows) :
        LET g == GroupRows(LiveRows, p)
            S == {vulnerability_severity_level(r) : r \in g}
        IN  \A x \in PairRowsFor(snapshot_id, p) :
              /\ S \subseteq TransformedForms => x[5] = HighestSeverity(S)
              /\ x[6] = last_seen_timestamp(LatestRow(g))
              /\ (\A r \in g : status(r) = "") => x[4] = "Active"

\* The distinct CVE identifiers with at least one live row whose status
\* falls in bucket b, and likewise for the severity.
CvesWithStatus(b) ==
  {cve_id(r) : r \in {q \in LiveRows : cve_id(q) # 0 /\ StatusBucket(status(q)) = b}}
CvesWithSeverity(b) ==
  {cve_id(r) : r \in {q \in LiveRows : cve_id(q) # 0
                         /\ SeverityBucket(vulnerability_severity_level(q)) = b}}

\* C26: each severity count and each status count of the snapshot
\* record_snapshot writes equals the number of distinct CVE identifiers
\* having at least one row whose text falls in that bucket, also when the
\* texts 'Fixed' and 'Resolved' both occur.
C26_BucketCountsDistinctCves ==
  (rpc = "idle" /\ rresult.kind = "id") =>
     /\ \A b \in {"fixed", "active"} :
          stats.status_counts[b] = Cardinality(CvesWithStatus(b))
     /\ \A b \in {"critical", "high", "medium", "low"} :
          stats.severity_counts[b] = Cardinality(CvesWithSeverity(b))

\* Whether the backend holds no entry for the key of the call.
NoEntry == cache[_build_cache_key(fetch.period_types)] = {}

\* C22: a call of fetch_trend_payload with the cache backend absent goes
\* the way of a call that misses the cache with the backend present:
\* cache_get gives None also when an entry is stored, and the mapping the
\* call returns is a read of the trend table as the call leaves it, for
\* the requested period types, with the backend absent or present.
C22_CacheAbsentAsMiss ==
  [][/\ (fpc' = "lookup" /\ (~fetch'.backend \/ NoEntry')) => fetch'.cached = {}
     /\ (fpc # "idle" /\ fpc' = "idle" /\ (~fetch.backend \/ NoEntry)
           /\ fresult' # "raised") =>
          /\ fresult' = "returned"
          /\ payload' \in Readings(trend_periods', fetch.period_types)]_vars

C22_Witness ==
  /\ fpc = "idle"
  /\ fresult = "returned"
  /\ ~fetch.backend
  /\ ~NoEntry
  /\ payload # cache[_build_cache_key(fetch.period_types)]
  /\ \E x \in payload : Len(x[2]) > 0

\* The data points of the periods that hold the current date, computed
\* from the snapshot history as it is.
CurrentPayload(target) ==
  {<<target[i], PeriodRow(target[i], today, _load_daily_series(snapshot_history)).data_points>> :
     i \in DOMAIN target}

\* C29: with a non-empty snapshot history, a call of fetch_trend_payload
\* that found nothing in the cache returns, for each requested period
\* type, the data points of the period that holds the current date.
C29_PayloadOfCurrentPeriod ==
  [][(fpc # "idle" /\ fpc' = "idle" /\ fresult' = "returned"
        /\ snapshot_history # {}) =>
       payload' = CurrentPayload(fetch.period_types)]_vars

\* C21: the rows of the live table (their detection flags included) change
\* only in a step of save_vulnerabilities, the snapshot tables only in a
\* step of record_snapshot, and the trend table only in a step of
\* refresh_trend_periods.
C21_TablesHaveOneWriter ==
  [][/\ (tables'[TABLE_VULNERABILITIES].rows # tables[TABLE_VULNERABILITIES].rows
           \/ detection' # detection) => SaveRunning
     /\ (vulnerability_snapshots' # vulnerability_snapshots
           \/ cve_device_snapshots' # cve_device_snapshots) => rpc # "idle"
     /\ trend_periods' # trend_periods => trpc # "idle"]_vars

====
